---- MODULE Spec2Model ----
(***************************************************************************)
(* yliw ("your life in weeks"): a model of src/main.rs.                    *)
(*                                                                         *)
(* Text is modelled as a sequence of one-character strings, so that        *)
(* trimming and date parsing are computed character by character, the way  *)
(* str::trim and chrono's NaiveDate::parse_from_str("%d-%m-%Y") compute    *)
(* them.  A run of main is a sequence of steps (pc), one per statement     *)
(* group of main, one per iteration of the progress-bar loop and one per   *)
(* row of the weeks grid.                                                  *)
(***************************************************************************)
EXTENDS Integers, Sequences, FiniteSets, TLC

VARIABLES
    pc,             \* position of the run inside main
    trace,          \* the steps of main performed so far, in order
    out,            \* the sections written to standard output, in order
    file,           \* the config file as main finds it (None: not looked at)
    loaded_config,  \* the UserConfig as first assigned (None: not yet)
    user_config,    \* main's user_config (None before it is assigned)
    stdin_line,     \* what read_line returned (None: never called)
    prompts,        \* number of times the birthday prompt was printed
    today,          \* the date Local::now() gave (None: not asked)
    age_in_days,    \* main's age_in_days (None before it is assigned)
    bar,            \* the ProgressBar [len, pos] (None before it is created)
    year,           \* loop variable of display_progress_bar
    positions,      \* arguments of the calls of set_position, in order
    summary,        \* the numbers display_summary_message prints (or None)
    grid,           \* rows printed by print_life_in_weeks; TRUE is a green cell
    exit_code,      \* process exit status (None while running)
    input,          \* argument of the last direct call of parse_date
    parsed          \* result of the last direct call of parse_date

vars == <<pc, trace, out, file, loaded_config, user_config, stdin_line, prompts,
          today, age_in_days, bar, year, positions, summary, grid, exit_code,
          input, parsed>>

\* Option<T>: None is the empty sequence, Some(v) the sequence of v alone.
None == <<>>

Some(v) == <<v>>

Unwrap(o) == o[1]

-----------------------------------------------------------------------------
(* Bounds of the model. *)

MaxDayField == 32       \* day fields 00..MaxDayField are tried by the parser
MaxMonthField == 13     \* month fields 00..MaxMonthField are tried
MaxConfigLines == 2     \* longest config file, in lines

-----------------------------------------------------------------------------
(* Characters and text. *)

DigitChars == <<"0", "1", "2", "3", "4", "5", "6", "7", "8", "9">>

IsDigit(c) == \E i \in 1..10 : DigitChars[i] = c

DigitVal(c) == (CHOOSE i \in 1..10 : DigitChars[i] = c) - 1

IsSpace(c) == c \in {" ", "\t", "\n", "\r"}

Digit(n) == DigitChars[n + 1]

Pad2(n) == <<Digit((n \div 10) % 10), Digit(n % 10)>>

Pad4(n) == <<Digit((n \div 1000) % 10), Digit((n \div 100) % 10),
             Digit((n \div 10) % 10), Digit(n % 10)>>

\* The text DD-MM-YYYY of the numbers d, m, y.
DateText(d, m, y) == Pad2(d) \o <<"-">> \o Pad2(m) \o <<"-">> \o Pad4(y)

Drop(s, n) == SubSeq(s, n + 1, Len(s))

\* str::trim_start: drop leading whitespace.
RECURSIVE trim_start(_)
trim_start(s) ==
    IF s # <<>> /\ IsSpace(Head(s)) THEN trim_start(Tail(s)) ELSE s

\* str::trim_end: drop trailing whitespace.
RECURSIVE trim_end(_)
trim_end(s) ==
    IF s # <<>> /\ IsSpace(s[Len(s)])
    THEN trim_end(SubSeq(s, 1, Len(s) - 1))
    ELSE s

\* str::trim
trim(s) == trim_end(trim_start(s))

-----------------------------------------------------------------------------
(* Calendar arithmetic of chrono::NaiveDate (proleptic Gregorian). *)

IsLeap(y) == (y % 4 = 0 /\ y % 100 # 0) \/ y % 400 = 0

DaysInMonth(y, m) ==
    IF m = 2 THEN (IF IsLeap(y) THEN 29 ELSE 28)
    ELSE IF m \in {4, 6, 9, 11} THEN 30 ELSE 31

\* NaiveDate::from_ymd_opt(y, m, d).is_some()
IsRealDate(y, m, d) ==
    /\ m \in 1..12
    /\ d >= 1
    /\ d <= DaysInMonth(y, m)

RECURSIVE DaysBeforeMonth(_, _)
DaysBeforeMonth(y, m) ==
    IF m = 1 THEN 0 ELSE DaysBeforeMonth(y, m - 1) + DaysInMonth(y, m - 1)

\* Number of days from 31 December of year 0 to the date (NaiveDate's
\* num_days_from_ce); \div is the floor division, as in chrono's div_euclid.
DaysFromCE(y, m, d) ==
    (y - 1) * 365 + ((y - 1) \div 4) - ((y - 1) \div 100) + ((y - 1) \div 400)
    + DaysBeforeMonth(y, m) + d

\* a.signed_duration_since(b).num_days()
signed_duration_since_days(a, b) ==
    DaysFromCE(a.year, a.month, a.day) - DaysFromCE(b.year, b.month, b.day)

\* Rust's integer division and float-to-int casts truncate toward zero.
TruncDiv(a, b) == IF a >= 0 THEN a \div b ELSE -((-a) \div b)

-----------------------------------------------------------------------------
(* chrono's format::parse for the items of "%d-%m-%Y". *)

ParseErr == [ok |-> FALSE]

\* Number of leading digits of s, at most max.
RECURSIVE LeadingDigits(_, _)
LeadingDigits(s, max) ==
    IF max = 0 \/ s = <<>> \/ ~IsDigit(Head(s)) THEN 0
    ELSE 1 + LeadingDigits(Tail(s), max - 1)

RECURSIVE DigitsValue(_, _)
DigitsValue(s, n) ==
    IF n = 0 THEN 0 ELSE DigitsValue(s, n - 1) * 10 + DigitVal(s[n])

\* scan::number(s, 1, max): between one and max leading digits.
scan_number(s, max) ==
    LET n == LeadingDigits(s, max)
    IN  IF n = 0 THEN ParseErr
        ELSE [ok |-> TRUE, value |-> DigitsValue(s, n), rest |-> Drop(s, n)]

\* Item::Numeric for an unsigned field of width 2 (%d, %m): leading
\* whitespace is skipped, then one or two digits are taken.
parse_numeric_unsigned(s) == scan_number(trim_start(s), 2)

\* Item::Numeric for %Y: leading whitespace is skipped; an explicit sign
\* lifts the width limit, without a sign at most four digits are taken.
\* The digit count is capped where the inputs of this model end.
parse_numeric_year(s) ==
    LET t == trim_start(s)
    IN  IF t # <<>> /\ Head(t) = "-"
        THEN LET r == scan_number(Tail(t), 6)
             IN  IF r.ok THEN [r EXCEPT !.value = -r.value] ELSE r
        ELSE IF t # <<>> /\ Head(t) = "+"
        THEN scan_number(Tail(t), 6)
        ELSE scan_number(t, 4)

\* Item::Literal("-")
parse_literal_dash(s) ==
    IF s # <<>> /\ Head(s) = "-"
    THEN [ok |-> TRUE, rest |-> Tail(s)]
    ELSE ParseErr

\* NaiveDate::parse_from_str(input, fmt) for a format of three numeric items
\* separated by "-"; dayFirst tells whether the first item is the day
\* ("%d-%m-%Y") or the month ("%m-%d-%Y").  The years of the texts tried
\* here lie far inside NaiveDate's range of years, which is not modelled.
NaiveDate_parse_from_str(s, dayFirst) ==
    LET f1 == parse_numeric_unsigned(s)
        l1 == IF f1.ok THEN parse_literal_dash(f1.rest) ELSE ParseErr
        f2 == IF l1.ok THEN parse_numeric_unsigned(l1.rest) ELSE ParseErr
        l2 == IF f2.ok THEN parse_literal_dash(f2.rest) ELSE ParseErr
        f3 == IF l2.ok THEN parse_numeric_year(l2.rest) ELSE ParseErr
    IN  IF ~f3.ok THEN ParseErr
        ELSE IF f3.rest # <<>> THEN ParseErr        \* TOO_LONG
        ELSE LET d == IF dayFirst THEN f1.value ELSE f2.value
                 m == IF dayFirst THEN f2.value ELSE f1.value
             IN  IF IsRealDate(f3.value, m, d)
                 THEN [ok |-> TRUE, year |-> f3.value, month |-> m, day |-> d]
                 ELSE ParseErr                       \* OUT_OF_RANGE

parse_date_month_first(text) == NaiveDate_parse_from_str(text, FALSE)

\* fn parse_date
parse_date(text) == NaiveDate_parse_from_str(text, TRUE)

-----------------------------------------------------------------------------
(* The environment of a run: the config file, standard input, the clock. *)

\* A line of config.toml: a key with a typed value (the text of the value
\* is kept), or a line that is not TOML at all.
BirthdayLine(text) == [key |-> "birthday", type |-> "string", value |-> text]

TrueText == <<"t", "r", "u", "e">>

FalseText == <<"f", "a", "l", "s", "e">>

ShowWeeksLine(text) == [key |-> "show_weeks", type |-> "boolean", value |-> text]

ConfigLines ==
    { BirthdayLine(DateText(15, 6, 1990)),
      BirthdayLine(Pad4(1990) \o <<"-">> \o Pad2(6) \o <<"-">> \o Pad2(15)),
      ShowWeeksLine(TrueText),
      ShowWeeksLine(FalseText),
      [key |-> "show_weeks", type |-> "string", value |-> <<"n", "o">>],
      [key |-> "name", type |-> "string", value |-> <<"x">>],
      [key |-> "", type |-> "invalid", value |-> <<>>] }

RECURSIVE SeqsUpTo(_, _)
SeqsUpTo(S, n) ==
    IF n = 0 THEN {<<>>}
    ELSE LET shorter == SeqsUpTo(S, n - 1)
         IN  shorter \cup {Append(q, x) : q \in shorter, x \in S}

\* What main finds at <config-dir>/yliw/config.toml.
ConfigFiles ==
    { [kind |-> k, lines |-> <<>>] :
        k \in { "no_config_dir",     \* dirs::config_dir() is None
                "absent",            \* no such file
                "unreadable",        \* present, the read is refused
                "not_utf8" } }       \* present, bytes are not UTF-8 text
    \cup { [kind |-> "text", lines |-> l] : l \in SeqsUpTo(ConfigLines, MaxConfigLines) }

\* What read_line puts into the buffer: the line with its newline, or
\* nothing at end of input.
StdinLines ==
    { DateText(15, 6, 1990) \o <<"\n">>,
      DateText(1, 1, 1900) \o <<"\n">>,
      DateText(1, 1, 2030) \o <<"\n">>,
      DateText(1, 3, 2027) \o <<"\n">>,
      <<" ", "5", "-", "7", "-">> \o Pad4(2001) \o <<" ", "\n">>,
      Pad4(2021) \o <<"-">> \o Pad2(12) \o <<"-">> \o Pad2(21) \o <<"\n">>,
      <<>> }

Todays ==
    { [year |-> 2026, month |-> 11, day |-> 2],
      [year |-> 2024, month |-> 2, day |-> 29] }

-----------------------------------------------------------------------------
(* Config loading. *)

\* fs::read_to_string(&config_dir): Ok only for a file that exists, can be
\* read and holds UTF-8 text.
read_to_string(f) ==
    IF f.kind = "text" THEN [ok |-> TRUE, content |-> f.lines] ELSE [ok |-> FALSE]

KeyLines(lines, k) == {i \in 1..Len(lines) : lines[i].key = k}

\* The value text of key k, as an Option.
FieldOf(lines, k) ==
    IF KeyLines(lines, k) = {} THEN None
    ELSE Some(lines[CHOOSE i \in KeyLines(lines, k) : TRUE].value)

\* toml::from_str::<UserConfig>: fails on a line that is not TOML, on a key
\* given twice and on a known key with a value of the wrong type; unknown
\* keys are ignored and missing keys become None.
toml_from_str(lines) ==
    IF \/ \E i \in 1..Len(lines) : lines[i].type = "invalid"
       \/ \E i, j \in 1..Len(lines) : i # j /\ lines[i].key = lines[j].key
       \/ \E i \in KeyLines(lines, "birthday") : lines[i].type # "string"
       \/ \E i \in KeyLines(lines, "show_weeks") : lines[i].type # "boolean"
    THEN [ok |-> FALSE]
    ELSE [ok |-> TRUE,
          config |->
              [birthday |-> FieldOf(lines, "birthday"),
               show_weeks |->
                   IF FieldOf(lines, "show_weeks") = None THEN None
                   ELSE Some(Unwrap(FieldOf(lines, "show_weeks")) = TrueText)]]

default_config_hidden_weeks == [birthday |-> None, show_weeks |-> Some(FALSE)]

\* UserConfig { birthday: None, show_weeks: Some(true) }
default_config == [birthday |-> None, show_weeks |-> Some(TRUE)]

show_weeks_unwrap_or_false(config) ==
    IF config.show_weeks = None THEN FALSE ELSE Unwrap(config.show_weeks)

\* user_config.show_weeks.unwrap_or(true)
show_weeks_unwrap_or_true(config) ==
    IF config.show_weeks = None THEN TRUE ELSE Unwrap(config.show_weeks)

-----------------------------------------------------------------------------
(* The functions of main.rs. *)

expected_years == 90

days_per_year == 365

weeks_per_year == 52

days_per_week == 7

rows == 30

columns == 156

expected_days == expected_years * days_per_year

\* fn get_user_birthday: the line read, trimmed.
get_user_birthday(line) == trim(line)

get_age_in_days_no_exit(birthday, now) ==
    LET r == parse_date(trim(birthday))
    IN  IF r.ok THEN Some(signed_duration_since_days(now, r)) ELSE Some(0)

\* fn get_age_in_days: Some(days) when the birthday parses, None when the
\* function prints the error and exits.  num_days() is below 2^31 in
\* absolute value for every pair of NaiveDates, so `as i32` keeps it.
get_age_in_days(birthday, now) ==
    LET r == parse_date(trim(birthday))
    IN  IF r.ok THEN Some(signed_duration_since_days(now, r)) ELSE None

\* (age_in_days as f64 / 7.0) as i32
age_in_weeks_i32(age) == TruncDiv(age, days_per_week)

\* age_in_weeks as i32 / 52
age_in_years_of(age) == TruncDiv(age_in_weeks_i32(age), weeks_per_year)

\* age_in_weeks as usize: a negative float becomes 0.
age_in_weeks_usize(age) ==
    IF age < 0 THEN 0 ELSE TruncDiv(age, days_per_week)

\* fn create_progress_bar: ProgressBar::new(total) starts at position 0.
create_progress_bar(total) == [len |-> total, pos |-> 0]

bar_loop_excludes_age(y, age_years) == y < age_years

\* for year in 0..=age_in_years
bar_loop_continues(y, age_years) == y <= age_years

\* ProgressBar::set_position stores the position as given.
set_position(b, p) == [b EXCEPT !.pos = p]

display_summary_message_weeks_from_days(expected, age) ==
    LET remaining_days == expected - age
    IN  [remaining_days |-> remaining_days,
         remaining_years |-> TruncDiv(remaining_days, days_per_year),
         remaining_weeks |-> TruncDiv(remaining_days, days_per_week),
         completion_percent |-> [num |-> age * 100, den |-> expected]]

\* fn display_summary_message: the numbers it formats; completion_percent is
\* kept as the exact quotient it rounds to two decimals.
display_summary_message(expected, age) ==
    LET remaining_days == expected - age
        remaining_years == TruncDiv(remaining_days, days_per_year)
        remaining_weeks == remaining_years * weeks_per_year
    IN  [remaining_days |-> remaining_days,
         remaining_years |-> remaining_years,
         remaining_weeks |-> remaining_weeks,
         completion_percent |-> [num |-> age * 100, den |-> expected]]

cell_is_lived_inclusive(row, col, lived_weeks) ==
    row * columns + col <= lived_weeks

\* total_weeks_so_far < lived_weeks: the cell is printed green.
cell_is_lived(row, col, lived_weeks) ==
    row * columns + col < lived_weeks

\* One row of print_life_in_weeks; cell col (from 0) is at index col + 1.
grid_row(row, lived_weeks) ==
    [i \in 1..columns |-> cell_is_lived(row, i - 1, lived_weeks)]

-----------------------------------------------------------------------------
(* A run of main. *)

Init ==
    /\ pc = "start"
    /\ trace = <<>>
    /\ out = <<>>
    /\ file = None
    /\ loaded_config = None
    /\ user_config = None
    /\ stdin_line = None
    /\ prompts = 0
    /\ today = None
    /\ age_in_days = None
    /\ bar = None
    /\ year = 0
    /\ positions = <<>>
    /\ summary = None
    /\ grid = <<>>
    /\ exit_code = None
    /\ input = None
    /\ parsed = ParseErr

\* display_welcome_message()
DisplayWelcome ==
    /\ pc = "start"
    /\ pc' = "config"
    /\ trace' = Append(trace, "welcome")
    /\ out' = Append(out, "welcome")
    /\ UNCHANGED <<file, loaded_config, user_config, stdin_line, prompts, today,
                   age_in_days, bar, year, positions, summary, grid, exit_code,
                   input, parsed>>

\* The config directory, read_to_string and toml::from_str; the two expect
\* calls panic (exit status 101).
LoadConfig ==
    /\ pc = "config"
    /\ \E f \in ConfigFiles :
        /\ file' = Some(f)
        /\ LET read == read_to_string(f)
               toml == IF read.ok THEN toml_from_str(read.content)
                       ELSE [ok |-> TRUE, config |-> default_config]
           IN  IF f.kind = "no_config_dir" \/ ~toml.ok
               THEN /\ pc' = "exited"
                    /\ exit_code' = Some(101)
                    /\ UNCHANGED <<loaded_config, user_config>>
               ELSE /\ pc' = "birthday"
                    /\ loaded_config' = Some(toml.config)
                    /\ user_config' = Some(toml.config)
                    /\ UNCHANGED exit_code
    /\ trace' = Append(trace, "load_config")
    /\ UNCHANGED <<out, stdin_line, prompts, today, age_in_days, bar, year,
                   positions, summary, grid, input, parsed>>

\* user_config.birthday.is_none(): prompt and read a line; a failed read
\* panics in expect (exit status 101).
PromptBirthday ==
    /\ pc = "birthday"
    /\ Unwrap(user_config).birthday = None
    /\ out' = Append(out, "prompt")
    /\ prompts' = prompts + 1
    /\ \E r \in {[ok |-> TRUE, line |-> l] : l \in StdinLines}
                \cup {[ok |-> FALSE, line |-> <<>>]} :
        /\ stdin_line' = Some(r)
        /\ IF r.ok
           THEN /\ user_config' =
                       Some([Unwrap(user_config) EXCEPT
                                 !.birthday = Some(get_user_birthday(r.line))])
                /\ pc' = "age"
                /\ UNCHANGED exit_code
           ELSE /\ pc' = "exited"
                /\ exit_code' = Some(101)
                /\ UNCHANGED user_config
    /\ trace' = Append(trace, "resolve_birthday")
    /\ UNCHANGED <<file, loaded_config, today, age_in_days, bar, year, positions,
                   summary, grid, input, parsed>>

\* The config file gave a birthday: nothing is asked.
KeepBirthday ==
    /\ pc = "birthday"
    /\ Unwrap(user_config).birthday # None
    /\ pc' = "age"
    /\ trace' = Append(trace, "resolve_birthday")
    /\ UNCHANGED <<out, file, loaded_config, user_config, stdin_line, prompts,
                   today, age_in_days, bar, year, positions, summary, grid,
                   exit_code, input, parsed>>

\* age_in_days = get_age_in_days(birthday), or "Birthday not found." when
\* there is no birthday.
GetAgeInDays ==
    /\ pc = "age"
    /\ trace' = Append(trace, "compute_age")
    /\ IF Unwrap(user_config).birthday = None
       THEN /\ out' = Append(out, "birthday_not_found")
            /\ pc' = "exited"
            /\ exit_code' = Some(1)
            /\ UNCHANGED <<today, age_in_days>>
       ELSE \E now \in Todays :
            LET age == get_age_in_days(Unwrap(Unwrap(user_config).birthday), now)
            IN  /\ age_in_days' = age
                /\ IF age = None
                   THEN /\ out' = Append(out, "unable_to_parse")
                        /\ pc' = "exited"
                        /\ exit_code' = Some(1)
                        /\ UNCHANGED today
                   ELSE /\ today' = Some(now)
                        /\ pc' = "years"
                        /\ UNCHANGED <<out, exit_code>>
    /\ UNCHANGED <<file, loaded_config, user_config, stdin_line, prompts, bar,
                   year, positions, summary, grid, input, parsed>>

\* create_progress_bar(expected_years) and "You are N years old!"
ShowYears ==
    /\ pc = "years"
    /\ bar' = Some(create_progress_bar(expected_years))
    /\ out' = Append(out, "years")
    /\ year' = 0
    /\ pc' = "bar"
    /\ trace' = Append(trace, "progress_bar")
    /\ UNCHANGED <<file, loaded_config, user_config, stdin_line, prompts, today,
                   age_in_days, positions, summary, grid, exit_code, input,
                   parsed>>

\* One iteration of the loop of display_progress_bar.
BarStep ==
    /\ pc = "bar"
    /\ bar_loop_continues(year, age_in_years_of(Unwrap(age_in_days)))
    /\ bar' = Some(set_position(Unwrap(bar), year))
    /\ positions' = Append(positions, year)
    /\ year' = year + 1
    /\ UNCHANGED <<pc, trace, out, file, loaded_config, user_config, stdin_line,
                   prompts, today, age_in_days, summary, grid, exit_code, input,
                   parsed>>

\* The loop of display_progress_bar ends; println!().
BarDone ==
    /\ pc = "bar"
    /\ ~bar_loop_continues(year, age_in_years_of(Unwrap(age_in_days)))
    /\ out' = Append(out, "bar_end")
    /\ pc' = "summary"
    /\ UNCHANGED <<trace, file, loaded_config, user_config, stdin_line, prompts,
                   today, age_in_days, bar, year, positions, summary, grid,
                   exit_code, input, parsed>>

\* display_summary_message(expected_days, age_in_days)
DisplaySummary ==
    /\ pc = "summary"
    /\ summary' = Some(display_summary_message(expected_days, Unwrap(age_in_days)))
    /\ out' = Append(out, "summary")
    /\ trace' = Append(trace, "summary")
    /\ pc' = "weeks"
    /\ UNCHANGED <<file, loaded_config, user_config, stdin_line, prompts, today,
                   age_in_days, bar, year, positions, grid, exit_code, input,
                   parsed>>

\* show_weeks is true or unset: print_life_in_weeks starts with its title.
GridHeader ==
    /\ pc = "weeks"
    /\ show_weeks_unwrap_or_true(Unwrap(user_config))
    /\ out' = Append(out, "weeks_title")
    /\ trace' = Append(trace, "weeks_grid")
    /\ pc' = "grid"
    /\ UNCHANGED <<file, loaded_config, user_config, stdin_line, prompts, today,
                   age_in_days, bar, year, positions, summary, grid, exit_code,
                   input, parsed>>

\* show_weeks is false: main returns without the grid.
SkipGrid ==
    /\ pc = "weeks"
    /\ ~show_weeks_unwrap_or_true(Unwrap(user_config))
    /\ pc' = "exited"
    /\ exit_code' = Some(0)
    /\ UNCHANGED <<trace, out, file, loaded_config, user_config, stdin_line,
                   prompts, today, age_in_days, bar, year, positions, summary,
                   grid, input, parsed>>

\* One iteration of the outer loop of print_life_in_weeks: a whole row.
GridRow ==
    /\ pc = "grid"
    /\ Len(grid) < rows
    /\ grid' = Append(grid, grid_row(Len(grid), age_in_weeks_usize(Unwrap(age_in_days))))
    /\ UNCHANGED <<pc, trace, out, file, loaded_config, user_config, stdin_line,
                   prompts, today, age_in_days, bar, year, positions, summary,
                   exit_code, input, parsed>>

\* The grid is complete: main returns.
GridDone ==
    /\ pc = "grid"
    /\ Len(grid) >= rows
    /\ pc' = "exited"
    /\ exit_code' = Some(0)
    /\ UNCHANGED <<trace, out, file, loaded_config, user_config, stdin_line,
                   prompts, today, age_in_days, bar, year, positions, summary,
                   grid, input, parsed>>

Next ==
    \/ DisplayWelcome
    \/ LoadConfig
    \/ PromptBirthday
    \/ KeepBirthday
    \/ GetAgeInDays
    \/ ShowYears
    \/ BarStep
    \/ BarDone
    \/ DisplaySummary
    \/ GridHeader
    \/ SkipGrid
    \/ GridRow
    \/ GridDone

Spec == Init /\ [][Next]_vars

-----------------------------------------------------------------------------
(* parse_date called on its own, as the tests of main.rs call it. *)

DayFields ==
    {Pad2(n) : n \in 0..MaxDayField}
    \cup {<<Digit(n)>> : n \in {1, 9}}
    \cup {<<" ", "0", "7">>}

MonthFields ==
    {Pad2(n) : n \in 0..MaxMonthField} \cup {<<"2">>}

StrictYears == {0, 1900, 2000, 2020, 2021}

YearFields ==
    {Pad4(y) : y \in StrictYears}
    \cup { <<"2", "1">>,
           <<"+">> \o Pad4(2021),
           <<"-">> \o Pad4(44),
           Pad4(2021) \o <<"0">>,
           Pad4(2021) \o <<" ">> }

SeparatorPairs == {<<"-", "-">>, <<"/", "/">>, <<"-", "/">>, <<".", "-">>}

ParseInputs ==
    { d \o <<p[1]>> \o m \o <<p[2]>> \o y :
        d \in DayFields, m \in MonthFields, y \in YearFields, p \in SeparatorPairs }
    \cup { Pad4(y) \o <<"-">> \o m \o <<"-">> \o d :
             y \in StrictYears, m \in MonthFields, d \in DayFields }
    \cup { <<>> }

InitParse ==
    /\ pc = "parse_date"
    /\ trace = <<>>
    /\ out = <<>>
    /\ file = None
    /\ loaded_config = None
    /\ user_config = None
    /\ stdin_line = None
    /\ prompts = 0
    /\ today = None
    /\ age_in_days = None
    /\ bar = None
    /\ year = 0
    /\ positions = <<>>
    /\ summary = None
    /\ grid = <<>>
    /\ exit_code = None
    /\ input = None
    /\ parsed = ParseErr

\* let result = parse_date(date_str);
ParseDateCall ==
    /\ pc = "parse_date"
    /\ \E text \in ParseInputs :
        /\ input' = Some(text)
        /\ parsed' = parse_date(text)
    /\ pc' = "parse_date_returned"
    /\ UNCHANGED <<trace, out, file, loaded_config, user_config, stdin_line,
                   prompts, today, age_in_days, bar, year, positions, summary,
                   grid, exit_code>>

SpecParse == InitParse /\ [][ParseDateCall]_vars

-----------------------------------------------------------------------------
(* Strict DD-MM-YYYY texts, read off the text position by position. *)

IsStrictFormat(text) ==
    /\ Len(text) = 10
    /\ \A i \in {1, 2, 4, 5, 7, 8, 9, 10} : IsDigit(text[i])
    /\ text[3] = "-"
    /\ text[6] = "-"

StrictDay(text) == DigitVal(text[1]) * 10 + DigitVal(text[2])

StrictMonth(text) == DigitVal(text[4]) * 10 + DigitVal(text[5])

StrictYear(text) ==
    DigitVal(text[7]) * 1000 + DigitVal(text[8]) * 100
    + DigitVal(text[9]) * 10 + DigitVal(text[10])

IsStrictRealDate(text) ==
    /\ IsStrictFormat(text)
    /\ IsRealDate(StrictYear(text), StrictMonth(text), StrictDay(text))

\* C1: every strict DD-MM-YYYY text that names a real calendar date is
\* parsed successfully, to exactly that year, month and day.
C1_StrictRealDateParses ==
    (input # None /\ IsStrictRealDate(Unwrap(input))) =>
        /\ parsed.ok
        /\ parsed.year = StrictYear(Unwrap(input))
        /\ parsed.month = StrictMonth(Unwrap(input))
        /\ parsed.day = StrictDay(Unwrap(input))

\* "21-12-2021" was parsed to 21 December 2021.
C1_Witness ==
    /\ input = Some(DateText(21, 12, 2021))
    /\ IsStrictRealDate(Unwrap(input))
    /\ parsed = [ok |-> TRUE, year |-> 2021, month |-> 12, day |-> 21]

\* C2: every text that is not a strict DD-MM-YYYY real calendar date is
\* rejected by parse_date.
C2_NonStrictRejected ==
    (input # None /\ ~IsStrictRealDate(Unwrap(input))) => ~parsed.ok

-----------------------------------------------------------------------------
(* Properties of a run of main. *)

IsIn(x, q) == \E i \in 1..Len(q) : q[i] = x

\* The birthday step is behind the run.
BirthdayStepDone == pc \notin {"start", "config", "birthday"}

\* get_age_in_days has been called.
AgeStepDone == pc \notin {"start", "config", "birthday", "age"}

\* The loop of display_progress_bar has ended.
BarLoopDone == summary # None \/ pc \in {"summary", "weeks", "grid"}

NothingRendered ==
    /\ bar = None
    /\ positions = <<>>
    /\ summary = None
    /\ grid = <<>>
    /\ ~IsIn("years", out)
    /\ ~IsIn("summary", out)
    /\ ~IsIn("weeks_title", out)

ResolvedBirthdayFails ==
    /\ AgeStepDone
    /\ user_config # None
    /\ Unwrap(user_config).birthday # None
    /\ ~parse_date(trim(Unwrap(Unwrap(user_config).birthday))).ok

\* C3: when the resolved birthday (from the config file or from the prompt)
\* does not parse, the run prints the "Unable to parse the date" message as
\* its last output and exits with status 1; it has prompted at most once,
\* takes no further step, and has rendered no bar, summary or grid.
C3_ParseFailureIsFatal ==
    ResolvedBirthdayFails =>
        /\ pc = "exited"
        /\ exit_code = Some(1)
        /\ out # <<>>
        /\ out[Len(out)] = "unable_to_parse"
        /\ prompts <= 1
        /\ prompts = Len(SelectSeq(out, LAMBDA x : x = "prompt"))
        /\ NothingRendered
        /\ ~ENABLED Next

\* A birthday typed at the prompt failed to parse and the run exited.
C3_Witness ==
    /\ ResolvedBirthdayFails
    /\ prompts = 1
    /\ Unwrap(stdin_line).line = Pad4(2021) \o <<"-">> \o Pad2(12) \o <<"-">> \o Pad2(21) \o <<"\n">>
    /\ exit_code = Some(1)

ConfigFilePresent ==
    file # None /\ Unwrap(file).kind \in {"unreadable", "not_utf8", "text"}

ConfigContentUnparseable ==
    \/ Unwrap(file).kind = "not_utf8"
    \/ Unwrap(file).kind = "text" /\ ~toml_from_str(Unwrap(file).lines).ok

\* C4: a config file that is present but whose content cannot be parsed ends
\* the run with a non-zero status, without a config, a prompt or any
\* rendering; only an absent file leads to the default config.
C4_UnparseableConfigIsFatal ==
    /\ (ConfigFilePresent /\ ConfigContentUnparseable) =>
            /\ pc = "exited"
            /\ exit_code \notin {None, Some(0)}
            /\ loaded_config = None
            /\ prompts = 0
            /\ NothingRendered
    /\ (ConfigFilePresent /\ Unwrap(file).kind # "text") => loaded_config = None

\* C5: an absent config file gives the default config (no birthday,
\* show_weeks = true); the prompt is printed exactly once if the loaded
\* config has no birthday and never otherwise; the line entered is the
\* birthday of the rest of the run, and without a prompt it is the config's.
C5_PromptIffNoBirthday ==
    /\ (file # None /\ Unwrap(file).kind = "absent") =>
            loaded_config = Some([birthday |-> None, show_weeks |-> Some(TRUE)])
    /\ ~BirthdayStepDone => prompts = 0
    /\ loaded_config = None => prompts = 0
    /\ (BirthdayStepDone /\ loaded_config # None) =>
            prompts = IF Unwrap(loaded_config).birthday = None THEN 1 ELSE 0
    /\ prompts = Len(SelectSeq(out, LAMBDA x : x = "prompt"))
    /\ (prompts = 0) = (stdin_line = None)
    /\ (stdin_line # None /\ Unwrap(stdin_line).ok) =>
            Unwrap(user_config).birthday = Some(trim(Unwrap(stdin_line).line))
    /\ (stdin_line = None /\ user_config # None) =>
            Unwrap(user_config).birthday = Unwrap(loaded_config).birthday

\* No config file: the run prompted once and completed with the entered date.
C5_Witness ==
    /\ file # None
    /\ Unwrap(file).kind = "absent"
    /\ prompts = 1
    /\ Unwrap(user_config).birthday = Some(DateText(15, 6, 1990))
    /\ exit_code = Some(0)

ConfigDeclaresShowWeeksFalse ==
    /\ file # None
    /\ Unwrap(file).kind = "text"
    /\ \E i \in 1..Len(Unwrap(file).lines) :
           Unwrap(file).lines[i] = ShowWeeksLine(FalseText)

\* C6: in a run that completes normally the weeks grid (title and rows) is
\* absent when the config file declares show_weeks = false and is printed in
\* full otherwise (show_weeks = true, no show_weeks key, no config file).
C6_ShowWeeksControlsGrid ==
    exit_code = Some(0) =>
        IF ConfigDeclaresShowWeeksFalse
        THEN grid = <<>> /\ ~IsIn("weeks_title", out)
        ELSE Len(grid) = 30 /\ IsIn("weeks_title", out)

\* A config file with a birthday and no show_weeks key: the grid is printed.
C6_Witness ==
    /\ exit_code = Some(0)
    /\ file # None
    /\ Unwrap(file).kind = "text"
    /\ Unwrap(file).lines = <<BirthdayLine(DateText(15, 6, 1990))>>
    /\ Len(grid) = 30

Abs(n) == IF n < 0 THEN -n ELSE n

\* C7: the summary reports remaining_days = 32850 - age_in_days,
\* remaining_years = remaining_days / 365 (the quotient truncated toward
\* zero) and remaining_weeks = remaining_years * 52.
C7_RemainingWeeksFromYears ==
    summary # None =>
        LET s == Unwrap(summary)
        IN  /\ s.remaining_days = 90 * 365 - Unwrap(age_in_days)
            /\ s.remaining_days = 32850 - Unwrap(age_in_days)
            /\ Abs(s.remaining_years) * 365 <= Abs(s.remaining_days)
            /\ Abs(s.remaining_days) < (Abs(s.remaining_years) + 1) * 365
            /\ s.remaining_years * s.remaining_days >= 0
            /\ s.remaining_weeks = s.remaining_years * 52

\* A summary whose remaining_weeks differs from remaining_days / 7.
C7_Witness ==
    /\ summary # None
    /\ Unwrap(summary).remaining_days > 0
    /\ Unwrap(summary).remaining_weeks # Unwrap(summary).remaining_days \div 7
    /\ Unwrap(summary).remaining_weeks = (Unwrap(summary).remaining_days \div 365) * 52

ClaimedOrder ==
    <<"load_config", "resolve_birthday", "compute_age", "welcome",
      "progress_bar", "summary", "weeks_grid">>

\* C8: the steps of a run happen in the order load config, resolve birthday,
\* compute age, welcome banner, progress bar, summary, weeks grid, each at
\* most once, and no output section is rendered before the config has been
\* loaded and the birthday resolved.
C8_StepsInClaimedOrder ==
    /\ Len(trace) <= Len(ClaimedOrder)
    /\ trace = SubSeq(ClaimedOrder, 1, Len(trace))
    /\ IsIn("welcome", out) =>
            /\ loaded_config # None
            /\ Unwrap(user_config).birthday # None

\* C9 as claimed: the bar has 90 steps, the positions set are 0, 1, ...,
\* in increasing order, the last one set is age_in_years, and every position
\* set lies within 0..90.
C9_PositionsWithinBar ==
    /\ bar # None => Unwrap(bar).len = 90 /\ Unwrap(bar).pos \in 0..90
    /\ \A i \in 1..Len(positions) : positions[i] = i - 1 /\ positions[i] \in 0..90
    /\ BarLoopDone =>
            /\ positions # <<>>
            /\ positions[Len(positions)] = age_in_years_of(Unwrap(age_in_days))

\* C9 as amended: the bar has 90 steps; the positions set are 0, 1, ..., in
\* increasing order, and the bar is at the last one set; when the loop ends,
\* they are exactly 0..age_in_years if age_in_years >= 0 and none at all if
\* age_in_years < 0; they all lie within 0..90 exactly if age_in_years <= 90.
C9_PositionsUpToAge ==
    /\ bar # None =>
            /\ Unwrap(bar).len = 90
            /\ Unwrap(bar).pos =
                   IF positions = <<>> THEN 0 ELSE positions[Len(positions)]
    /\ \A i \in 1..Len(positions) : positions[i] = i - 1
    /\ BarLoopDone =>
            LET age_years == age_in_years_of(Unwrap(age_in_days))
            IN  /\ Len(positions) = IF age_years >= 0 THEN age_years + 1 ELSE 0
                /\ (\A i \in 1..Len(positions) : positions[i] \in 0..90)
                       <=> age_years <= 90

\* The loop ended for an age above 90 years: the bar stands past its length.
C9_Witness ==
    /\ BarLoopDone
    /\ age_in_years_of(Unwrap(age_in_days)) > 90
    /\ Unwrap(bar).pos = age_in_years_of(Unwrap(age_in_days))
    /\ Unwrap(bar).pos > Unwrap(bar).len

\* Whole weeks of age; 0 for a birthday that is not in the past.
LivedWeeks == IF Unwrap(age_in_days) < 0 THEN 0 ELSE Unwrap(age_in_days) \div 7

LivedCells ==
    {rc \in (1..Len(grid)) \X (1..156) : grid[rc[1]][rc[2]]}

\* C10: the grid has 30 rows of 156 cells, printed top to bottom; the cell
\* at (row, col) is green exactly if row * 156 + col < lived_weeks, and the
\* complete grid has min(lived_weeks, 4680) green cells.
C10_GridCells ==
    /\ Len(grid) <= 30
    /\ \A r \in 1..Len(grid) :
            /\ Len(grid[r]) = 156
            /\ \A c \in 1..156 :
                   grid[r][c] <=> ((r - 1) * 156 + (c - 1) < LivedWeeks)
    /\ (exit_code = Some(0) /\ IsIn("weeks_title", out)) =>
            /\ Len(grid) = 30
            /\ Cardinality(LivedCells) =
                   IF LivedWeeks < 4680 THEN LivedWeeks ELSE 4680
            /\ Unwrap(age_in_days) <= 0 => LivedCells = {}

\* A complete grid whose green prefix ends inside a row.
C10_Witness ==
    /\ exit_code = Some(0)
    /\ Len(grid) = 30
    /\ \E r \in 1..30 : \E c \in 1..155 : grid[r][c] /\ ~grid[r][c + 1]

====
